---- MODULE Spec2Model ----
(***************************************************************************)
(* Model of wrapper/eta_codec.py: the .eta encode/decode pipeline and its  *)
(* file container.                                                         *)
(*                                                                         *)
(* A byte is a number in 0..255 and a byte buffer a sequence of bytes.  A  *)
(* Python str is represented by the sequence of its UTF-8 bytes, so that   *)
(* str.encode() keeps the sequence and bytes.decode() is defined exactly   *)
(* on the well-formed UTF-8 sequences (ValidUtf8).                         *)
(*                                                                         *)
(* The outcome of a call is a record [kind, val]: kind "ok" with the       *)
(* returned value, or the kind of the exception raised with val = <<>>.    *)
(***************************************************************************)
EXTENDS Integers, Sequences, FiniteSets, TLC

\* ------------------------------------------------------------------ bounds
\* longest input string handed to encode_datetime / the helpers
MaxLen == 3
\* how many payload positions of a token the corruption step may hit
MaxCorrupt == 3

\* ------------------------------------------------------------- characters
PAD == 61          \* "="
NL == 10           \* "\n"

Ok(v) == [kind |-> "ok", val |-> v]
Raise(k) == [kind |-> k, val |-> <<>>]

\* the exception kinds of the pipeline
MalformedEncodingError == "binascii.Error"     \* base32 / base64 decode
FrameFormatError == "ValueError"               \* struct_unwrap
TextDecodingError == "UnicodeDecodeError"      \* bytes.decode()

Pow2(n) == CASE n = 0 -> 1 [] n = 1 -> 2 [] n = 2 -> 4 [] n = 3 -> 8
             [] n = 4 -> 16 [] n = 5 -> 32 [] n = 6 -> 64 [] n = 7 -> 128
             [] n = 8 -> 256 [] n = 9 -> 512 [] n = 10 -> 1024
             [] n = 11 -> 2048 [] n = 12 -> 4096 [] n = 13 -> 8192
             [] n = 14 -> 16384 [] n = 15 -> 32768 [] n = 16 -> 65536

At(s, i) == IF i >= 1 /\ i <= Len(s) THEN s[i] ELSE 0

RECURSIVE Concat(_)
Concat(ss) == IF ss = <<>> THEN <<>> ELSE Head(ss) \o Concat(Tail(ss))

\* str(n) for a non-negative integer: its decimal digits as characters
RECURSIVE DecStr(_)
DecStr(n) == IF n < 10 THEN <<48 + n>> ELSE Append(DecStr(n \div 10), 48 + (n % 10))

\* ------------------------------------------------------------ Codec64
\* "ABCDEFGHIJKLMNOPQRSTUVWXYZabcdefghijklmnopqrstuvwxyz0123456789+/"
B64Alphabet == [i \in 1..64 |->
                 IF i <= 26 THEN 64 + i
                 ELSE IF i <= 52 THEN 96 + (i - 26)
                 ELSE IF i <= 62 THEN 47 + (i - 52)
                 ELSE IF i = 63 THEN 43 ELSE 47]

B64Value(c) == IF c >= 65 /\ c <= 90 THEN c - 65
               ELSE IF c >= 97 /\ c <= 122 THEN c - 97 + 26
               ELSE IF c >= 48 /\ c <= 57 THEN c - 48 + 52
               ELSE IF c = 43 THEN 62
               ELSE IF c = 47 THEN 63 ELSE 64

\* base64.b64encode: 3 bytes -> 4 symbols, "=" padding on the last group
b64encode(b) ==
  LET n == Len(b)
      nsym == (8 * n + 5) \div 6
      Sym(j) == LET i == (6 * j) \div 8
                    off == (6 * j) % 8
                    w == At(b, i + 1) * 256 + At(b, i + 2)
                IN B64Alphabet[((w \div Pow2(10 - off)) % 64) + 1]
  IN [p \in 1..(4 * ((n + 2) \div 3)) |-> IF p <= nsym THEN Sym(p - 1) ELSE PAD]

\* binascii.a2b_base64 in non-strict mode: the scan over the characters.
\* Returns the accepted sextets, or <<-1>> when the data ends inside a quad.
RECURSIVE a2b_scan(_, _, _, _, _)
a2b_scan(s, i, quad_pos, pads, acc) ==
  IF i > Len(s) THEN (IF quad_pos # 0 THEN <<-1>> ELSE acc)
  ELSE IF s[i] = PAD
       THEN IF quad_pos >= 2 /\ quad_pos + pads + 1 >= 4
            THEN acc
            ELSE a2b_scan(s, i + 1, quad_pos,
                          IF quad_pos >= 2 THEN pads + 1 ELSE pads, acc)
       ELSE IF B64Value(s[i]) >= 64
            THEN a2b_scan(s, i + 1, quad_pos, pads, acc)
            ELSE a2b_scan(s, i + 1, (quad_pos + 1) % 4, 0,
                          Append(acc, B64Value(s[i])))

\* base64.b64decode(s, validate=False)
b64decode(s) ==
  LET sx == a2b_scan(s, 1, 0, 0, <<>>)
      n == Len(sx)
      nbytes == 3 * (n \div 4) + (IF n % 4 >= 2 THEN (n % 4) - 1 ELSE 0)
      ByteAt(k) == LET j == (8 * k) \div 6
                       off == (8 * k) % 6
                       w == At(sx, j + 1) * 64 + At(sx, j + 2)
                   IN (w \div Pow2(4 - off)) % 256
  IN IF sx = <<-1>> THEN Raise(MalformedEncodingError)
     ELSE Ok([k \in 1..nbytes |-> ByteAt(k - 1)])

\* ------------------------------------------------------------ Codec32
\* base32hex alphabet "0123456789ABCDEFGHIJKLMNOPQRSTUV"
B32Alphabet == [i \in 1..32 |-> IF i <= 10 THEN 47 + i ELSE 54 + i]

B32Value(c) == IF c >= 48 /\ c <= 57 THEN c - 48
               ELSE IF c >= 65 /\ c <= 86 THEN c - 55 ELSE 32

\* base32hex.b32encode: 5 bytes -> 8 symbols, "=" padding on the last group
b32encode(b) ==
  LET n == Len(b)
      nsym == (8 * n + 4) \div 5
      Sym(j) == LET i == (5 * j) \div 8
                    off == (5 * j) % 8
                    w == At(b, i + 1) * 256 + At(b, i + 2)
                IN B32Alphabet[((w \div Pow2(11 - off)) % 32) + 1]
  IN [p \in 1..(8 * ((n + 4) \div 5)) |-> IF p <= nsym THEN Sym(p - 1) ELSE PAD]

RECURSIVE rstrip_pad(_)
rstrip_pad(s) == IF s # <<>> /\ s[Len(s)] = PAD
                 THEN rstrip_pad(SubSeq(s, 1, Len(s) - 1)) ELSE s

\* base32hex.b32decode: length a multiple of 8, trailing "=" stripped, every
\* other character a base32hex digit, 0/1/3/4/6 pad characters
b32decode(s) ==
  LET l == Len(s)
      t == rstrip_pad(s)
      padchars == l - Len(t)
      leftover == (43 - 5 * padchars) \div 8
      nbytes == 5 * (Len(t) \div 8) + (IF padchars > 0 THEN leftover ELSE 0)
      ByteAt(k) == LET j == (8 * k) \div 5
                       off == (8 * k) % 5
                       V(i) == IF i <= Len(t) THEN B32Value(t[i]) ELSE 0
                       w == V(j + 1) * 1024 + V(j + 2) * 32 + V(j + 3)
                   IN (w \div Pow2(7 - off)) % 256
  IN IF l % 8 # 0 THEN Raise(MalformedEncodingError)
     ELSE IF \E i \in 1..Len(t) : B32Value(t[i]) >= 32
          THEN Raise(MalformedEncodingError)
     ELSE IF padchars \notin {0, 1, 3, 4, 6} THEN Raise(MalformedEncodingError)
     ELSE Ok([k \in 1..nbytes |-> ByteAt(k - 1)])

\* ------------------------------------------------------- bytes.decode()
\* well-formed UTF-8, as CPython's strict decoder accepts it
RECURSIVE ValidUtf8From(_, _)
ValidUtf8From(b, i) ==
  LET Cont(k, lo, hi) == k <= Len(b) /\ b[k] >= lo /\ b[k] <= hi
      c == b[i]
  IN IF i > Len(b) THEN TRUE
     ELSE IF c <= 127 THEN ValidUtf8From(b, i + 1)
     ELSE IF c >= 194 /\ c <= 223
          THEN Cont(i + 1, 128, 191) /\ ValidUtf8From(b, i + 2)
     ELSE IF c = 224
          THEN Cont(i + 1, 160, 191) /\ Cont(i + 2, 128, 191) /\ ValidUtf8From(b, i + 3)
     ELSE IF (c >= 225 /\ c <= 236) \/ c = 238 \/ c = 239
          THEN Cont(i + 1, 128, 191) /\ Cont(i + 2, 128, 191) /\ ValidUtf8From(b, i + 3)
     ELSE IF c = 237
          THEN Cont(i + 1, 128, 159) /\ Cont(i + 2, 128, 191) /\ ValidUtf8From(b, i + 3)
     ELSE IF c = 240
          THEN Cont(i + 1, 144, 191) /\ Cont(i + 2, 128, 191)
               /\ Cont(i + 3, 128, 191) /\ ValidUtf8From(b, i + 4)
     ELSE IF c >= 241 /\ c <= 243
          THEN Cont(i + 1, 128, 191) /\ Cont(i + 2, 128, 191)
               /\ Cont(i + 3, 128, 191) /\ ValidUtf8From(b, i + 4)
     ELSE IF c = 244
          THEN Cont(i + 1, 128, 143) /\ Cont(i + 2, 128, 191)
               /\ Cont(i + 3, 128, 191) /\ ValidUtf8From(b, i + 4)
     ELSE FALSE

ValidUtf8(b) == ValidUtf8From(b, 1)

bytes_decode(b) == IF ValidUtf8(b) THEN Ok(b) ELSE Raise(TextDecodingError)

\* ------------------------------------------------- SubstitutionCipher
\* mapping.get(ch, ch) of regex_a_p_transform: "a".."p" -> str(((c-'a') % 5) + 1)
map_a_p(ch) == IF ch >= 97 /\ ch <= 112 THEN DecStr(((ch - 97) % 5) + 1) ELSE <<ch>>

regex_a_p_transform(text) == Concat([i \in 1..Len(text) |-> map_a_p(text[i])])

\* regex_f_x_transform with a table that stops at "w"
map_f_x_short(ch) == IF ch >= 102 /\ ch <= 119 THEN DecStr(((ch - 102) % 4) + 9) ELSE <<ch>>

\* mapping.get(ch, ch) of regex_f_x_transform: "f".."x" -> str(((c-'f') % 4) + 9)
map_f_x(ch) == IF ch >= 102 /\ ch <= 120 THEN DecStr(((ch - 102) % 4) + 9) ELSE <<ch>>

regex_f_x_transform(text) == Concat([i \in 1..Len(text) |-> map_f_x(text[i])])

\* ------------------------------------------------------------ XorMask
\* xor_binary with "|" in place of "^"
RECURSIVE OrBits(_, _, _)
OrBits(a, b, n) == IF n = 0 THEN 0
                   ELSE (IF (a % 2) + (b % 2) > 0 THEN 1 ELSE 0)
                        + 2 * OrBits(a \div 2, b \div 2, n - 1)

RECURSIVE XorBits(_, _, _)
XorBits(a, b, n) == IF n = 0 THEN 0
                    ELSE ((a + b) % 2) + 2 * XorBits(a \div 2, b \div 2, n - 1)

XOR_KEY == 90      \* 0x5A

xor_binary(data, k) == [i \in 1..Len(data) |-> XorBits(data[i], k, 8)]

\* xor_binary(data): the key parameter left at its default
xor_binary_default(data) == xor_binary(data, XOR_KEY)

\* ---------------------------------------------------------- FrameCodec
\* b"[ETA_HEADER]"
ETA_HEADER == <<91, 69, 84, 65, 95, 72, 69, 65, 68, 69, 82, 93>>
\* b"[ETA_FOOTER]"
ETA_FOOTER == <<91, 69, 84, 65, 95, 70, 79, 79, 84, 69, 82, 93>>

startswith(data, p) == Len(data) >= Len(p) /\ SubSeq(data, 1, Len(p)) = p

endswith(data, p) == Len(data) >= Len(p)
                     /\ SubSeq(data, Len(data) - Len(p) + 1, Len(data)) = p

\* struct_wrap with the two markers exchanged
struct_wrap_swapped(data) == ETA_FOOTER \o data \o ETA_HEADER

struct_wrap(data) == ETA_HEADER \o data \o ETA_FOOTER

\* struct_unwrap that slices without looking at the markers
struct_unwrap_unchecked(data) ==
  Ok(SubSeq(data, Len(ETA_HEADER) + 1, Len(data) - Len(ETA_FOOTER)))

\* struct_unwrap that looks at the header only
struct_unwrap_header_only(data) ==
  IF startswith(data, ETA_HEADER)
  THEN Ok(SubSeq(data, Len(ETA_HEADER) + 1, Len(data) - Len(ETA_FOOTER)))
  ELSE Raise(FrameFormatError)

\* data[len(header):-len(footer)], or ValueError
struct_unwrap(data) ==
  IF startswith(data, ETA_HEADER) /\ endswith(data, ETA_FOOTER)
  THEN Ok(SubSeq(data, Len(ETA_HEADER) + 1, Len(data) - Len(ETA_FOOTER)))
  ELSE Raise(FrameFormatError)

\* -------------------------------------------------------- EtaPipeline
\* the two tables applied in the other order
substitute_b_then_a(step1) ==
  LET step2 == regex_f_x_transform(step1)
      step3 == regex_a_p_transform(step2)
  IN step3

\* steps 2 and 3 of encode_datetime: table A, then table B
substitute(step1) ==
  LET step2 == regex_a_p_transform(step1)
      step3 == regex_f_x_transform(step2)
  IN step3

\* encode_datetime for a str argument
encode_datetime(dt_str) ==
  LET step1 == b64encode(dt_str)
      step3 == substitute(step1)
      step4 == xor_binary_default(step3)
      step5 == struct_wrap(step4)
  IN b32encode(step5)

\* decode_eta with only the base64 decode inside the try
decode_step5_text_uncaught(step4) ==
  LET raw == b64decode(step4)
  IN IF raw.kind # "ok" THEN Ok(step4)
     ELSE bytes_decode(raw.val)

\* the try/except of decode_eta around base64 decode and text decode
decode_step5(step4) ==
  LET raw == b64decode(step4)
  IN IF raw.kind # "ok" THEN Ok(step4)
     ELSE IF bytes_decode(raw.val).kind # "ok" THEN Ok(step4)
     ELSE Ok(raw.val)

decode_eta(encoded) ==
  LET step1 == b32decode(encoded)
  IN IF step1.kind # "ok" THEN step1
     ELSE LET step2 == struct_unwrap(step1.val)
          IN IF step2.kind # "ok" THEN step2
             ELSE LET step3 == xor_binary_default(step2.val)
                      step4 == bytes_decode(step3)
                  IN IF step4.kind # "ok" THEN step4
                     ELSE decode_step5(step4.val)

\* -------------------------------------------------------- EtaContainer
BEGIN_ETA == <<66, 69, 71, 73, 78, 95, 69, 84, 65>>     \* "BEGIN_ETA"
END_ETA == <<69, 78, 68, 95, 69, 84, 65>>               \* "END_ETA"

\* the three f.write calls of write_eta_file: the text the file then holds
write_eta_file(dt_str) ==
  LET encoded == encode_datetime(dt_str)
  IN (BEGIN_ETA \o <<NL>>) \o (encoded \o <<NL>>) \o (END_ETA \o <<NL>>)

\* str.strip() and str.splitlines(), on the ASCII range
Whitespace == {9, 10, 11, 12, 13, 28, 29, 30, 31, 32}
LineBreaks == {10, 11, 12, 13, 28, 29, 30}

RECURSIVE lstrip(_)
lstrip(s) == IF s # <<>> /\ Head(s) \in Whitespace THEN lstrip(Tail(s)) ELSE s

RECURSIVE rstrip(_)
rstrip(s) == IF s # <<>> /\ s[Len(s)] \in Whitespace
             THEN rstrip(SubSeq(s, 1, Len(s) - 1)) ELSE s

strip(s) == rstrip(lstrip(s))

\* the index of the first line break of s, or 0
first_break(s) ==
  IF \E i \in 1..Len(s) : s[i] \in LineBreaks
  THEN CHOOSE i \in 1..Len(s) :
         s[i] \in LineBreaks /\ \A j \in 1..(i - 1) : s[j] \notin LineBreaks
  ELSE 0

\* str.splitlines(): "\r\n" is one break, no empty last line
RECURSIVE splitlines(_)
splitlines(s) ==
  LET b == first_break(s)
      rest == IF s[b] = 13 /\ At(s, b + 1) = 10 THEN b + 2 ELSE b + 1
  IN IF s = <<>> THEN <<>>
     ELSE IF b = 0 THEN <<s>>
     ELSE <<SubSeq(s, 1, b - 1)>> \o splitlines(SubSeq(s, rest, Len(s)))

\* read_eta_file that keeps the sentinel lines
join_all_lines(lines) == Concat(lines)

\* "".join(line for line in lines if line not in ("BEGIN_ETA", "END_ETA"))
join_token_lines(lines) ==
  Concat([i \in 1..Len(lines) |->
            IF lines[i] \in {BEGIN_ETA, END_ETA} THEN <<>> ELSE lines[i]])

read_eta_file(content) ==
  LET lines == splitlines(strip(content))
      encoded == join_token_lines(lines)
  IN decode_eta(encoded)

\* ===================================================== the state machine
\* One run of the module's callers: an input string dt is chosen, and the
\* public operations and the helpers are applied to it.
VARIABLES
  dt,       \* the input string (its UTF-8 bytes)
  token,    \* the token at hand
  origin,   \* where token comes from: "none", "encoded", "corrupted", "supplied"
  pos,      \* the position a corruption replaced (0: none)
  file,     \* the text of the .eta file (<<>>: not written)
  call,     \* the function called last ("init": none yet)
  step,     \* how many calls of the current chain have been made
  buf,      \* the buffer a helper chain started from
  arg,      \* the argument of the last call
  key,      \* the key argument of the last xor_binary call (NoKey: omitted)
  ret       \* the outcome of the last call

vars == <<dt, token, origin, pos, file, call, step, buf, arg, key, ret>>

\* characters the longer inputs are made of: "0" "2" ":" "i" "w" " "
InputChars == {48, 50, 58, 105, 119, 32}

RECURSIVE StringsUpTo(_)
StringsUpTo(n) ==
  IF n = 0 THEN {<<>>}
  ELSE LET shorter == StringsUpTo(n - 1)
       IN shorter \cup {Append(t, c) : t \in {u \in shorter : Len(u) = n - 1},
                                        c \in InputChars}

\* "2024-01-01 00:00:00", a string in the format strftime produces
CanonicalExample == <<50, 48, 50, 52, 45, 48, 49, 45, 48, 49, 32,
                      48, 48, 58, 48, 48, 58, 48, 48>>

\* every one-character ASCII string, one two-byte character, a canonical
\* timestamp, and the strings over InputChars up to MaxLen characters
Inputs == StringsUpTo(MaxLen) \cup {<<c>> : c \in 0..127}
            \cup {<<195, 169>>, CanonicalExample}

NoKey == -1
Keys == {NoKey, 0, 90, 255}

\* buffers around the input for the frame helpers: nothing, or a marker
FrameParts == {<<>>, ETA_HEADER, ETA_FOOTER}

\* tokens that come from elsewhere: the empty token and a one-character one
SuppliedTokens == {<<>>, <<48>>}

\* replacement characters: base32hex digits "0" "G" "V" and the non-digit "!"
CorruptChars == {48, 71, 86, 33}

\* The token characters (1-based) all of whose 5 bits lie in the payload:
\* the 12 header bytes are bits 0..95, the payload of n bytes bits 96..95+8n.
MiddlePositions(n) == 21..(((91 + 8 * n) \div 5) + 1)

PayloadLen(x) == Len(substitute(b64encode(x)))

\* the positions the model corrupts: the first MaxCorrupt middle positions,
\* and the first character (header region)
CorruptPositions(x) ==
  {1} \cup {p \in MiddlePositions(PayloadLen(x)) : p <= 20 + MaxCorrupt}

Init ==
  /\ dt \in Inputs
  /\ token = <<>>
  /\ origin = "none"
  /\ pos = 0
  /\ file = <<>>
  /\ call = "init"
  /\ step = 0
  /\ buf = <<>>
  /\ arg = <<>>
  /\ key = NoKey
  /\ ret = Ok(<<>>)

\* token = encode_datetime(dt)
Encode ==
  /\ call = "init"
  /\ token' = encode_datetime(dt)
  /\ origin' = "encoded"
  /\ call' = "encode_datetime"
  /\ step' = 1
  /\ arg' = dt
  /\ ret' = Ok(token')
  /\ UNCHANGED <<dt, pos, file, buf, key>>

\* the token is damaged on its way: one character replaced by another
Corrupt ==
  /\ call = "encode_datetime"
  /\ \E p \in CorruptPositions(dt), c \in CorruptChars :
       /\ token[p] # c
       /\ token' = [token EXCEPT ![p] = c]
       /\ pos' = p
  /\ origin' = "corrupted"
  /\ call' = "corrupt"
  /\ UNCHANGED <<dt, file, step, buf, arg, key, ret>>

\* a token that encode_datetime did not make
Supply ==
  /\ call = "init"
  /\ \E t \in SuppliedTokens : token' = t
  /\ origin' = "supplied"
  /\ call' = "supply"
  /\ UNCHANGED <<dt, pos, file, step, buf, arg, key, ret>>

\* ret = decode_eta(token)
Decode ==
  /\ origin # "none"
  /\ call \in {"encode_datetime", "corrupt", "supply"}
  /\ call' = "decode_eta"
  /\ step' = step + 1
  /\ arg' = token
  /\ ret' = decode_eta(token)
  /\ UNCHANGED <<dt, token, origin, pos, file, buf, key>>

\* write_eta_file(path, dt)
WriteFile ==
  /\ call = "init"
  /\ file' = write_eta_file(dt)
  /\ call' = "write_eta_file"
  /\ step' = 1
  /\ arg' = dt
  /\ ret' = Ok(<<>>)
  /\ UNCHANGED <<dt, token, origin, pos, buf, key>>

\* ret = read_eta_file(path)
ReadFile ==
  /\ call = "write_eta_file"
  /\ call' = "read_eta_file"
  /\ step' = 2
  /\ arg' = file
  /\ ret' = read_eta_file(file)
  /\ UNCHANGED <<dt, token, origin, pos, file, buf, key>>

\* xor_binary(dt) or xor_binary(dt, k)
Xor ==
  /\ call = "init"
  /\ \E k \in Keys :
       /\ key' = k
       /\ ret' = Ok(IF k = NoKey THEN xor_binary_default(dt) ELSE xor_binary(dt, k))
  /\ call' = "xor_binary"
  /\ step' = 1
  /\ buf' = dt
  /\ arg' = dt
  /\ UNCHANGED <<dt, token, origin, pos, file>>

\* xor_binary applied to its own output, same key
XorAgain ==
  /\ call = "xor_binary"
  /\ step = 1
  /\ ret' = Ok(IF key = NoKey THEN xor_binary_default(ret.val)
               ELSE xor_binary(ret.val, key))
  /\ step' = 2
  /\ arg' = ret.val
  /\ UNCHANGED <<dt, token, origin, pos, file, call, buf, key>>

\* struct_wrap(b), b the input with or without markers around it
Wrap ==
  /\ call = "init"
  /\ \E pre \in FrameParts, post \in FrameParts :
       /\ buf' = pre \o dt \o post
       /\ arg' = pre \o dt \o post
       /\ ret' = Ok(struct_wrap(pre \o dt \o post))
  /\ call' = "struct_wrap"
  /\ step' = 1
  /\ UNCHANGED <<dt, token, origin, pos, file, key>>

\* struct_unwrap of what struct_wrap returned
UnwrapWrapped ==
  /\ call = "struct_wrap"
  /\ call' = "struct_unwrap"
  /\ step' = 2
  /\ arg' = ret.val
  /\ ret' = struct_unwrap(ret.val)
  /\ UNCHANGED <<dt, token, origin, pos, file, buf, key>>

\* struct_unwrap of a buffer as it comes
Unwrap ==
  /\ call = "init"
  /\ \E pre \in FrameParts, post \in FrameParts :
       /\ buf' = pre \o dt \o post
       /\ arg' = pre \o dt \o post
       /\ ret' = struct_unwrap(pre \o dt \o post)
  /\ call' = "struct_unwrap"
  /\ step' = 1
  /\ UNCHANGED <<dt, token, origin, pos, file, key>>

\* regex_a_p_transform(dt)
RegexAP ==
  /\ call = "init"
  /\ call' = "regex_a_p_transform"
  /\ step' = 1
  /\ arg' = dt
  /\ ret' = Ok(regex_a_p_transform(dt))
  /\ UNCHANGED <<dt, token, origin, pos, file, buf, key>>

\* regex_f_x_transform(dt)
RegexFX ==
  /\ call = "init"
  /\ call' = "regex_f_x_transform"
  /\ step' = 1
  /\ arg' = dt
  /\ ret' = Ok(regex_f_x_transform(dt))
  /\ UNCHANGED <<dt, token, origin, pos, file, buf, key>>

\* steps 2 and 3 of encode_datetime on the text dt
Substitute ==
  /\ call = "init"
  /\ call' = "substitute"
  /\ step' = 1
  /\ arg' = dt
  /\ ret' = Ok(substitute(dt))
  /\ UNCHANGED <<dt, token, origin, pos, file, buf, key>>

Next ==
  \/ Encode
  \/ Corrupt
  \/ Supply
  \/ Decode
  \/ WriteFile
  \/ ReadFile
  \/ Xor
  \/ XorAgain
  \/ Wrap
  \/ UnwrapWrapped
  \/ Unwrap
  \/ RegexAP
  \/ RegexFX
  \/ Substitute

Spec == Init /\ [][Next]_vars

\* ============================================================ the claims
HEX_5A == 90

\* the text carries a letter one of the two tables rewrites ("a".."x")
HasTableLetter(text) == \E i \in 1..Len(text) : text[i] >= 97 /\ text[i] <= 120

\* the interior of a framed buffer
Interior(b) == SubSeq(b, 13, Len(b) - 12)

Framed(b) == startswith(b, ETA_HEADER) /\ endswith(b, ETA_FOOTER)

\* C1: decode_eta(encode_datetime(x)) is x when the base64 text of x has no
\* letter a..x, and otherwise the substituted text; never a third value.
C1_RoundTripTwoValues ==
  (call = "decode_eta" /\ origin = "encoded") =>
     ret = Ok(IF HasTableLetter(b64encode(dt)) THEN substitute(b64encode(dt)) ELSE dt)

\* C2: decoding a token with one middle character replaced raises the
\* frame-format error or the malformed-encoding error, and returns no value.
C2_CorruptedMiddleRaises ==
  (call = "decode_eta" /\ origin = "corrupted"
     /\ pos \in MiddlePositions(PayloadLen(dt))) =>
     ret.kind \in {FrameFormatError, MalformedEncodingError}

\* C3 (as stated): decode_eta("") raises the malformed-encoding error.
C3_EmptyTokenMalformed ==
  (call = "decode_eta" /\ origin = "supplied" /\ token = <<>>) =>
     ret = Raise(MalformedEncodingError)

\* C3 (amended): decode_eta("") raises the frame-format error of
\* struct_unwrap, the Codec32 decode of the empty token being the empty buffer.
C3_EmptyTokenFrameError ==
  (call = "decode_eta" /\ origin = "supplied" /\ token = <<>>) =>
     (b32decode(token) = Ok(<<>>) /\ ret = Raise(FrameFormatError))

C3_Witness == call = "decode_eta" /\ origin = "supplied" /\ token = <<>>

\* C4: in decode_eta a Codec32 failure or a frame failure propagates; a
\* failure of the final base64 step (its decode or the text decoding of its
\* result) raises nothing and the intermediate text is returned unchanged.
C4_OnlyBase64Recovered ==
  call = "decode_eta" =>
    LET s1 == b32decode(arg)
    IN IF s1.kind # "ok" THEN ret = Raise(MalformedEncodingError)
       ELSE IF ~Framed(s1.val) THEN ret = Raise(FrameFormatError)
       ELSE LET text == xor_binary(Interior(s1.val), HEX_5A)
                raw == b64decode(text)
            IN IF ~ValidUtf8(text) THEN ret.kind # "ok"
               ELSE /\ ret.kind = "ok"
                    /\ (raw.kind # "ok" \/ ~ValidUtf8(raw.val)) => ret.val = text

C4_Witness ==
  /\ call = "decode_eta"
  /\ origin = "corrupted"
  /\ b32decode(arg).kind = "ok"
  /\ Framed(b32decode(arg).val)
  /\ LET text == xor_binary(Interior(b32decode(arg).val), HEX_5A)
     IN ValidUtf8(text) /\ b64decode(text).kind # "ok" /\ ret = Ok(text)

\* C5: struct_unwrap(struct_wrap(b)) = b for every b, and struct_unwrap of a
\* buffer that does not both start with the header and end with the footer
\* raises the frame-format error.
C5_FrameRoundTrip ==
  call = "struct_unwrap" =>
    /\ step = 2 => ret = Ok(buf)
    /\ ~Framed(arg) => ret = Raise(FrameFormatError)

C5_Witness ==
  /\ call = "struct_unwrap"
  /\ step = 2
  /\ startswith(buf, ETA_FOOTER)
  /\ endswith(buf, ETA_HEADER)
  /\ Len(buf) > 24
  /\ ret = Ok(buf)

\* C6: xor_binary never fails, keeps the length, applied twice with the same
\* key gives the buffer back, and without a key uses 0x5A.
C6_XorSelfInverse ==
  call = "xor_binary" =>
    /\ ret.kind = "ok"
    /\ Len(ret.val) = Len(arg)
    /\ step = 2 => ret.val = buf
    /\ key = NoKey => ret.val = xor_binary(arg, HEX_5A)

C6_Witness ==
  /\ call = "xor_binary"
  /\ step = 2
  /\ key = 255
  /\ Len(buf) = 2
  /\ arg # buf
  /\ ret.val = buf

\* the tables as the claims spell them out
TableA(c) == IF c >= 97 /\ c <= 112 THEN <<49 + ((c - 97) % 5)>> ELSE <<c>>

TableB(c) ==
  IF c >= 102 /\ c <= 120
  THEN CASE (c - 102) % 4 = 0 -> <<57>>
         [] (c - 102) % 4 = 1 -> <<49, 48>>
         [] (c - 102) % 4 = 2 -> <<49, 49>>
         [] (c - 102) % 4 = 3 -> <<49, 50>>
  ELSE <<c>>

\* C7: regex_a_p_transform replaces a..p by the digit ((c - 'a') mod 5) + 1,
\* regex_f_x_transform replaces f..x by "9", "10", "11" or "12", and each
\* copies every other character unchanged and in order.
C7_TablesRewriteOnlyTheirRange ==
  /\ call = "regex_a_p_transform" =>
       ret = Ok(Concat([i \in 1..Len(arg) |-> TableA(arg[i])]))
  /\ call = "regex_f_x_transform" =>
       ret = Ok(Concat([i \in 1..Len(arg) |-> TableB(arg[i])]))

C7_Witness ==
  /\ call = "regex_f_x_transform"
  /\ Len(arg) = 2
  /\ arg[1] = 119
  /\ arg[2] = 48
  /\ ret = Ok(<<49, 48, 48>>)

\* C8: write_eta_file then read_eta_file gives what
\* decode_eta(encode_datetime(x)) gives: the file holds BEGIN_ETA, the token
\* and END_ETA, and the token read back is the token written.
C8_ContainerRoundTrip ==
  call = "read_eta_file" =>
    /\ file = BEGIN_ETA \o <<NL>> \o encode_datetime(dt) \o <<NL>> \o END_ETA \o <<NL>>
    /\ join_token_lines(splitlines(strip(file))) = encode_datetime(dt)
    /\ ret = decode_eta(encode_datetime(dt))

C8_Witness ==
  /\ call = "read_eta_file"
  /\ Len(dt) = 2
  /\ ret.kind = "ok"
  /\ ret.val = dt

\* C9: the Codec32 decode of encode_datetime(x) is framed, its interior
\* XORed with 0x5A is the substituted base64 text of x, and
\* decode_eta(encode_datetime(x)) raises nothing.
C9_DecodeUndoesOuterStages ==
  /\ call = "encode_datetime" =>
       LET s1 == b32decode(token)
       IN /\ s1.kind = "ok"
          /\ Framed(s1.val)
          /\ xor_binary(Interior(s1.val), HEX_5A) = substitute(b64encode(dt))
  /\ (call = "decode_eta" /\ origin = "encoded") => ret.kind = "ok"

C9_Witness ==
  /\ call = "decode_eta"
  /\ origin = "encoded"
  /\ ret.kind = "ok"
  /\ Len(substitute(b64encode(dt))) > Len(b64encode(dt))

\* table A then table B, letter by letter, as C10 spells it out
TableAB(c) ==
  IF c >= 97 /\ c <= 112 THEN <<49 + ((c - 97) % 5)>>
  ELSE IF c \in {114, 118} THEN <<57>>
  ELSE IF c \in {115, 119} THEN <<49, 48>>
  ELSE IF c \in {116, 120} THEN <<49, 49>>
  ELSE IF c \in {113, 117} THEN <<49, 50>>
  ELSE <<c>>

\* C10: table A then table B replaces a..p by the table-A digit and only
\* q..x by table-B values, leaves no character a..x, and lengthens the text
\* by the number of q, s, t, u, w, x in it.
C10_TableBOnlyRewritesQToX ==
  call = "substitute" =>
    /\ ret = Ok(Concat([i \in 1..Len(arg) |-> TableAB(arg[i])]))
    /\ ~HasTableLetter(ret.val)
    /\ Len(ret.val) = Len(arg)
         + Cardinality({i \in 1..Len(arg) : arg[i] \in {113, 115, 116, 117, 119, 120}})

C10_Witness ==
  /\ call = "substitute"
  /\ arg = <<105, 119>>
  /\ ret = Ok(<<52, 49, 48>>)

====
